---- MODULE Spec2Model ----
(***************************************************************************)
(* State-machine model of the hunspell-rs binding (src/src/spell_checker.rs*)
(* and src/src/serde.rs): a SpellChecker session owning a native Hunspell  *)
(* handle, the operations issued through it and the transfer of native     *)
(* string lists into host strings.                                         *)
(*                                                                         *)
(* Strings and paths are byte sequences (tuples of small naturals); byte 0 *)
(* is NUL and bytes >= 128 are not valid single-byte UTF-8.                *)
(***************************************************************************)
EXTENDS Integers, Sequences, FiniteSets, TLC

VARIABLES
    sessions,    \* slot -> SpellChecker fields (meaningful when the slot is live)
    live,        \* slots that hold a SpellChecker that has not been dropped
    files,       \* paths that are existing regular files
    engine,      \* native handle -> words the native engine accepts
    nextHandle,  \* next fresh handle the native constructor hands out
    destroyed,   \* native handle -> number of Hunspell_destroy calls on it
    proc,        \* "running", "panicked" (unwinding) or "crashed" (undefined behaviour)
    lastOp       \* the last operation: its arguments, result and native calls

vars == <<sessions, live, files, engine, nextHandle, destroyed, proc, lastOp>>

-----------------------------------------------------------------------------
(* Bounds of the model *)

\* native handles are 1..MaxHandles; construction stops when they are used up
MaxHandles == 2
\* additional dictionaries per session in the life-cycle specification
MaxAdds == 2
\* longest list a native query returns
MaxListLen == 2
\* positions of the additional-dictionary list that may hold either dictionary
\* in the capacity specification
MaxMixed == 2

\* spell_checker.rs:117, the limit on additional dictionaries
MaxDictionaries == 20

-----------------------------------------------------------------------------
(* Paths, keys and words *)

Aff == <<1>>
Dic == <<2>>
Extra == <<3>>
Gone == <<4>>
NulPath == <<3, 0>>
Key1 == <<7>>
NulKey == <<7, 0, 7>>
\* "cat", "cats", "rust", "rusts" as bytes; "cats" is "cat" with the
\* plural suffix of the affix file
Suffix == <<115>>
Affixed(word) == word \o Suffix
Cat == <<99, 97, 116>>
Cats == Affixed(Cat)
Rust == <<114, 117, 115, 116>>
Rusts == Affixed(Rust)
Octo == <<6>>
Units == <<8>>
NulWord == <<0, 6>>
\* "café" encoded as UTF-8 and as ISO-8859-1; the latter is not valid UTF-8
Cafe == <<99, 97, 102, 195, 169>>
BadUtf8 == <<99, 97, 102, 233>>

AllFiles == {Aff, Dic, Extra}
Words == {Cat, Cats, Rust, Rusts, Octo, Units}
\* two session slots: slot 1 holds a session made by new or new_with_key,
\* slot 2 a clone or a deserialized copy of it
Slots == {1, 2}
Handles == 1..MaxHandles
NullHandle == 0
None == <<>>
Some(x) == <<x>>

\* the words a dictionary file contributes to the engine
DictWords(path) ==
    IF path = Dic THEN {Cat, Cats} ELSE IF path = Extra THEN {Units} ELSE {}

HasNul(bytes) == \E i \in DOMAIN bytes : bytes[i] = 0

\* CString::new: fails on an interior NUL, otherwise appends the terminator
CStringNew(bytes) ==
    IF HasNul(bytes) THEN [ok |-> FALSE, c |-> <<>>]
    ELSE [ok |-> TRUE, c |-> bytes \o <<0>>]

\* CStr::from_ptr: the bytes before the terminator
CStrFromPtr(c) == SubSeq(c, 1, Len(c) - 1)

\* the length of the UTF-8 sequence a byte starts, 0 if it starts none
utf8_char_width(b) ==
    IF b < 128 THEN 1
    ELSE IF b >= 194 /\ b <= 223 THEN 2
    ELSE IF b >= 224 /\ b <= 239 THEN 3
    ELSE IF b >= 240 /\ b <= 244 THEN 4
    ELSE 0

Continuation(b) == b >= 128 /\ b <= 191

\* the second byte of a sequence: no overlong forms, no surrogates, nothing
\* above U+10FFFF
SecondByte(first, b) ==
    IF first = 224 THEN b >= 160 /\ b <= 191
    ELSE IF first = 237 THEN b >= 128 /\ b <= 159
    ELSE IF first = 240 THEN b >= 144 /\ b <= 191
    ELSE IF first = 244 THEN b >= 128 /\ b <= 143
    ELSE Continuation(b)

\* whether bytes[i..] is a run of well-formed UTF-8 sequences
RECURSIVE run_utf8_validation(_, _)
run_utf8_validation(bytes, i) ==
    IF i > Len(bytes) THEN TRUE
    ELSE LET w == utf8_char_width(bytes[i]) IN
         /\ w > 0
         /\ i + w - 1 <= Len(bytes)
         /\ w >= 2 => SecondByte(bytes[i], bytes[i + 1])
         /\ w >= 3 => Continuation(bytes[i + 2])
         /\ w = 4 => Continuation(bytes[i + 3])
         /\ run_utf8_validation(bytes, i + w)

\* CStr::to_str: the bytes as a string when they are valid UTF-8
ToStr(bytes) ==
    IF run_utf8_validation(bytes, 1)
    THEN [ok |-> TRUE, s |-> bytes]
    ELSE [ok |-> FALSE, s |-> <<>>]

\* Path::is_file: a path with an interior NUL names no file
IsFile(path, fs) == ~HasNul(path) /\ path \in fs

NoSession ==
    [affix |-> <<>>, dictionary |-> <<>>, additional_dictionaries |-> <<>>,
     key |-> None, handle |-> NullHandle]

NoOp ==
    [op |-> "init", sid |-> 0, args |-> <<>>, err |-> "Ok", val |-> <<>>,
     native |-> 0, status |-> <<>>, lists |-> <<>>]

\* check_paths
check_paths(affix, dictionary, fs) ==
    IF ~IsFile(affix, fs) THEN "AffixFileIsNoFile"
    ELSE IF ~IsFile(dictionary, fs) THEN "DictionaryFileIsNoFile"
    ELSE "Ok"

-----------------------------------------------------------------------------
(* Construction.  h is what the native constructor returns when it is      *)
(* called: NullHandle or a fresh handle.  A result records the error (or   *)
(* "Ok"), the number of native calls issued and the session produced.      *)

\* SpellChecker::new
new(affix, dictionary, fs, h) ==
    LET cp == check_paths(affix, dictionary, fs) IN
    IF cp # "Ok"
    THEN [err |-> cp, native |-> 0, sess |-> NoSession]
    ELSE IF ~CStringNew(affix).ok \/ ~CStringNew(dictionary).ok
    THEN [err |-> "NulError", native |-> 0, sess |-> NoSession]
    ELSE [err |-> "Ok", native |-> 1,
          sess |-> [affix |-> affix, dictionary |-> dictionary,
                    additional_dictionaries |-> <<>>, key |-> None,
                    handle |-> h]]

\* SpellChecker::new_with_key
new_with_key(affix, dictionary, key, fs, h) ==
    LET cp == check_paths(affix, dictionary, fs) IN
    IF cp # "Ok"
    THEN [err |-> cp, native |-> 0, sess |-> NoSession]
    ELSE IF ~CStringNew(affix).ok \/ ~CStringNew(dictionary).ok
            \/ ~CStringNew(key).ok
    THEN [err |-> "NulError", native |-> 0, sess |-> NoSession]
    ELSE [err |-> "Ok", native |-> 1,
          sess |-> [affix |-> affix, dictionary |-> dictionary,
                    additional_dictionaries |-> <<>>, key |-> Some(key),
                    handle |-> h]]

\* add_dictionary with the capacity test comparing against the wrong length
add_dictionary_late_cap(sess, eng, path, fs, status) ==
    IF Len(sess.additional_dictionaries) = MaxDictionaries + 1
    THEN [err |-> "CannotAddMoreDictionaries", val |-> <<>>, native |-> 0,
          status |-> <<>>, sess |-> sess, eng |-> eng]
    ELSE IF ~IsFile(path, fs)
    THEN [err |-> "DictionaryFileIsNoFile", val |-> <<>>, native |-> 0,
          status |-> <<>>, sess |-> sess, eng |-> eng]
    ELSE [err |-> "Ok", val |-> <<status = 0>>, native |-> 1,
          status |-> <<status>>,
          sess |-> [sess EXCEPT !.additional_dictionaries = Append(@, path)],
          eng |-> IF status = 0 THEN eng \cup DictWords(path) ELSE eng]

\* add_dictionary with the path recorded before the regular-file test
add_dictionary_push_first(sess, eng, path, fs, status) ==
    IF Len(sess.additional_dictionaries) = MaxDictionaries
    THEN [err |-> "CannotAddMoreDictionaries", val |-> <<>>, native |-> 0,
          status |-> <<>>, sess |-> sess, eng |-> eng]
    ELSE LET pushed ==
                 [sess EXCEPT !.additional_dictionaries = Append(@, path)]
         IN  IF ~IsFile(path, fs)
             THEN [err |-> "DictionaryFileIsNoFile", val |-> <<>>, native |-> 0,
                   status |-> <<>>, sess |-> pushed, eng |-> eng]
             ELSE [err |-> "Ok", val |-> <<status = 0>>, native |-> 1,
                   status |-> <<status>>, sess |-> pushed,
                   eng |-> IF status = 0 THEN eng \cup DictWords(path) ELSE eng]

\* SpellChecker::add_dictionary.  status is what Hunspell_add_dic returns when
\* it is called; eng is the word set of the session's engine.  A native call
\* through a null handle is undefined behaviour: the process crashes.
add_dictionary(sess, eng, path, fs, status) ==
    IF Len(sess.additional_dictionaries) = MaxDictionaries
    THEN [err |-> "CannotAddMoreDictionaries", val |-> <<>>, native |-> 0,
          status |-> <<>>, sess |-> sess, eng |-> eng]
    ELSE IF ~IsFile(path, fs)
    THEN [err |-> "DictionaryFileIsNoFile", val |-> <<>>, native |-> 0,
          status |-> <<>>, sess |-> sess, eng |-> eng]
    ELSE IF ~CStringNew(path).ok
    THEN [err |-> "NulError", val |-> <<>>, native |-> 0,
          status |-> <<>>, sess |-> sess, eng |-> eng]
    ELSE LET pushed ==
                 [sess EXCEPT !.additional_dictionaries = Append(@, path)]
         IN  IF sess.handle = NullHandle
             THEN [err |-> "Crash", val |-> <<>>, native |-> 1,
                   status |-> <<>>, sess |-> pushed, eng |-> eng]
             ELSE [err |-> "Ok", val |-> <<status = 0>>, native |-> 1,
                   status |-> <<status>>, sess |-> pushed,
                   eng |-> IF status = 0 THEN eng \cup DictWords(path) ELSE eng]

\* the loop `for d in additional_dictionaries { x.add_dictionary(d) ... }`:
\* the paths from position i on are added in order; it stops at the first
\* failure.  sts[i] is the native status of the i-th add.
RECURSIVE Replay(_, _, _, _, _, _, _)
Replay(sess, eng, paths, i, fs, sts, calls) ==
    IF i > Len(paths)
    THEN [err |-> "Ok", sess |-> sess, eng |-> eng, native |-> calls]
    ELSE LET r == add_dictionary(sess, eng, paths[i], fs, sts[i]) IN
         IF r.err # "Ok"
         THEN [err |-> r.err, sess |-> r.sess, eng |-> r.eng,
               native |-> calls + r.native]
         ELSE Replay(r.sess, r.eng, paths, i + 1, fs, sts, calls + r.native)

\* a derived Clone: the fields are copied, the handle with them
clone_derived(self, fs, h, sts) ==
    [err |-> "Ok", sess |-> self, eng |-> {}, native |-> 0, made |-> TRUE]

\* impl Clone for SpellChecker.  A failed expect panics; the clone built so
\* far is dropped while unwinding (made says whether it had been built).
clone(self, fs, h, sts) ==
    LET c == IF self.key # None
             THEN new_with_key(self.affix, self.dictionary, self.key[1], fs, h)
             ELSE new(self.affix, self.dictionary, fs, h)
    IN  IF c.err # "Ok"
        THEN [err |-> "Panic", sess |-> NoSession, eng |-> {},
              native |-> c.native, made |-> FALSE]
        ELSE LET r == Replay(c.sess, DictWords(self.dictionary),
                             self.additional_dictionaries, 1, fs, sts, c.native)
             IN  [err |-> IF r.err \in {"Ok", "Crash"} THEN r.err ELSE "Panic",
                  sess |-> r.sess, eng |-> r.eng, native |-> r.native,
                  made |-> TRUE]

-----------------------------------------------------------------------------
(* Serialization (derive(Serialize), handle skipped) and deserialization   *)

\* the derived Serialize: the fields in declaration order under their names
serialize(sess) ==
    << <<"affix", sess.affix>>,
       <<"dictionary", sess.dictionary>>,
       <<"additional_dictionaries", sess.additional_dictionaries>>,
       <<"key", sess.key>> >>

\* enum Field with rename_all = "lowercase": the identifier each variant accepts
Field(name) ==
    IF name = "affix" THEN "Affix"
    ELSE IF name = "dictionary" THEN "Dictionary"
    ELSE IF name = "additionaldictionaries" THEN "AdditionalDictionaries"
    ELSE IF name = "key" THEN "Key"
    ELSE "unknown"

\* the construction both visitors end with: new or new_with_key, then the
\* additional dictionaries; on an error the session built so far is dropped
Rebuild(affix, dictionary, adds, key, fs, h, sts) ==
    LET c == IF key # None
             THEN new_with_key(affix, dictionary, key[1], fs, h)
             ELSE new(affix, dictionary, fs, h)
    IN  IF c.err # "Ok"
        THEN [err |-> c.err, sess |-> NoSession, eng |-> {},
              native |-> c.native, made |-> FALSE]
        ELSE LET r == Replay(c.sess, DictWords(dictionary), adds, 1, fs, sts,
                             c.native)
             IN  [err |-> r.err, sess |-> r.sess, eng |-> r.eng,
                  native |-> r.native, made |-> TRUE]

\* SpellCheckerVisitor::visit_seq: the values by position
visit_seq(ser, fs, h, sts) ==
    IF Len(ser) < 4
    THEN [err |-> "invalid_length", sess |-> NoSession, eng |-> {},
          native |-> 0, made |-> FALSE]
    ELSE Rebuild(ser[1][2], ser[2][2], ser[3][2], ser[4][2], fs, h, sts)

\* the while-let loop of visit_map: acc maps each field to None or Some(value)
RECURSIVE MapFields(_, _, _)
MapFields(ser, i, acc) ==
    IF i > Len(ser) THEN [err |-> "Ok", acc |-> acc]
    ELSE LET f == Field(ser[i][1]) IN
         IF f = "unknown" THEN [err |-> "unknown_field", acc |-> acc]
         ELSE IF acc[f] # None THEN [err |-> "duplicate_field", acc |-> acc]
         ELSE MapFields(ser, i + 1, [acc EXCEPT ![f] = Some(ser[i][2])])

\* SpellCheckerVisitor::visit_map: the values by field name
visit_map(ser, fs, h, sts) ==
    LET m == MapFields(ser, 1,
                 [f \in {"Affix", "Dictionary", "AdditionalDictionaries", "Key"}
                     |-> None])
        fail(e) == [err |-> e, sess |-> NoSession, eng |-> {}, native |-> 0,
                    made |-> FALSE]
    IN  IF m.err # "Ok" THEN fail(m.err)
        ELSE IF \E f \in DOMAIN m.acc : m.acc[f] = None THEN fail("missing_field")
        ELSE Rebuild(m.acc["Affix"][1], m.acc["Dictionary"][1],
                     m.acc["AdditionalDictionaries"][1], m.acc["Key"][1],
                     fs, h, sts)

-----------------------------------------------------------------------------
(* Native string lists.  A list is [null, n, elems]: whether the array     *)
(* pointer is null, the count the native call returns, and the element     *)
(* C strings (<<>> is a null element pointer).                             *)

NullElem == <<>>
ElemKinds == {CStringNew(Cafe).c, CStringNew(BadUtf8).c, NullElem}

NoList == [null |-> TRUE, n |-> 0, elems |-> <<>>]

\* what a native query may leave in the list pointer and the count
NativeLists ==
    {[null |-> TRUE, n |-> k, elems |-> <<>>] : k \in {-1, 0, 1}}
    \cup {[null |-> FALSE, n |-> k, elems |-> <<>>] : k \in {-1, 0}}
    \cup UNION {{[null |-> FALSE, n |-> k, elems |-> e] : e \in [1..k -> ElemKinds]}
                    : k \in 1..MaxListLen}

\* what Hunspell_analyze hands to Hunspell_stem2 / Hunspell_generate2
NativeAnalyses ==
    {NoList} \cup
    {[null |-> FALSE, n |-> k, elems |-> [i \in 1..k |-> CStringNew(Cats).c]]
        : k \in 1..MaxListLen}

\* the map/collect of list_to_vec: elements in order, stopping at the first error
RECURSIVE Collect(_, _, _)
Collect(elems, i, acc) ==
    IF i > Len(elems) THEN [err |-> "Ok", strings |-> acc]
    ELSE IF elems[i] = NullElem THEN [err |-> "NullPtr", strings |-> <<>>]
    ELSE LET t == ToStr(CStrFromPtr(elems[i])) IN
         IF ~t.ok THEN [err |-> "Utf8Error", strings |-> <<>>]
         ELSE Collect(elems, i + 1, Append(acc, t.s))

\* list_to_vec.  arrayFrees counts the releases of the array by the host
\* allocator (the Vec built by from_raw_parts is consumed and dropped); the
\* element strings are only borrowed and copied.
list_to_vec(list) ==
    IF list.null
    THEN [err |-> "NullPtr", strings |-> <<>>, arrayFrees |-> 0]
    ELSE IF list.n < 0
    THEN [err |-> "NegativeListLength", strings |-> <<>>, arrayFrees |-> 0]
    ELSE IF list.n = 0
    THEN [err |-> "Ok", strings |-> <<>>, arrayFrees |-> 0]
    ELSE LET c == Collect(list.elems, 1, <<>>) IN
         [err |-> c.err, strings |-> c.strings, arrayFrees |-> 1]

\* Hunspell_free_list: releases the n element strings and the array of a
\* non-null list.  rel is the release record of the list so far.
Hunspell_free_list(list, rel) ==
    IF list.null THEN rel
    ELSE [rel EXCEPT !.arrayFrees = @ + 1,
                     !.elemFrees = @ + (IF list.n > 0 THEN 1 ELSE 0)]

\* the release record of a list a native call has just produced
Produced(list) ==
    [null |-> list.null, n |-> list.n, arrayFrees |-> 0, elemFrees |-> 0]

-----------------------------------------------------------------------------
(* Operations on one session.  Each returns the error (or "Ok"), the value,*)
(* the number of native calls issued, the release records of the native    *)
(* lists produced, and the engine's word set afterwards.                   *)

Statuses == {0, 1}

Res(err, val, native, lists, eng) ==
    [err |-> err, val |-> val, native |-> native, status |-> <<>>,
     lists |-> lists, eng |-> eng]

\* r, the result of an operation whose native call returned st
Native(st, r) == [r EXCEPT !.status = <<st>>]

\* add with the native status dropped
add_ignore_status(sess, eng, word, status) ==
    IF ~CStringNew(word).ok THEN Res("NulError", <<>>, 0, <<>>, eng)
    ELSE IF sess.handle = NullHandle THEN Res("Crash", <<>>, 1, <<>>, eng)
    ELSE Native(status, Res("Ok", <<>>, 1, <<>>,
                            IF status = 0 THEN eng \cup {word} ELSE eng))

\* SpellChecker::add
add(sess, eng, word, status) ==
    IF ~CStringNew(word).ok THEN Res("NulError", <<>>, 0, <<>>, eng)
    ELSE IF sess.handle = NullHandle THEN Res("Crash", <<>>, 1, <<>>, eng)
    ELSE IF status = 0 THEN Native(status, Res("Ok", <<>>, 1, <<>>, eng \cup {word}))
    ELSE Native(status, Res("HunspellLibError", <<status>>, 1, <<>>, eng))

\* Hunspell_add_with_affix: the word is accepted, and with the affix of the
\* example where the engine accepts the example so affixed
Hunspell_add_with_affix(eng, word, example) ==
    eng \cup {word}
        \cup (IF Affixed(example) \in eng THEN {Affixed(word)} ELSE {})

\* SpellChecker::add_with_affix
add_with_affix(sess, eng, word, example, status) ==
    IF ~CStringNew(word).ok THEN Res("NulError", <<>>, 0, <<>>, eng)
    ELSE IF ~CStringNew(example).ok THEN Res("NulError", <<>>, 0, <<>>, eng)
    ELSE IF sess.handle = NullHandle THEN Res("Crash", <<>>, 1, <<>>, eng)
    ELSE IF status = 0
         THEN Native(status, Res("Ok", <<>>, 1, <<>>,
                                 Hunspell_add_with_affix(eng, word, example)))
    ELSE Native(status, Res("HunspellLibError", <<status>>, 1, <<>>, eng))

\* SpellChecker::remove
remove(sess, eng, word, status) ==
    IF ~CStringNew(word).ok THEN Res("NulError", <<>>, 0, <<>>, eng)
    ELSE IF sess.handle = NullHandle THEN Res("Crash", <<>>, 1, <<>>, eng)
    ELSE IF status = 0 THEN Native(status, Res("Ok", <<>>, 1, <<>>, eng \ {word}))
    ELSE Native(status, Res("HunspellLibError", <<status>>, 1, <<>>, eng))

\* Hunspell_spell: nonzero when the engine accepts the word
Hunspell_spell(eng, word) == IF word \in eng THEN 1 ELSE 0

\* SpellChecker::check
check(sess, eng, word) ==
    IF ~CStringNew(word).ok THEN Res("NulError", <<>>, 0, <<>>, eng)
    ELSE IF sess.handle = NullHandle THEN Res("Crash", <<>>, 1, <<>>, eng)
    ELSE Native(Hunspell_spell(eng, word),
                Res("Ok", <<Hunspell_spell(eng, word) # 0>>, 1, <<>>, eng))

\* the release record of list after list_to_vec has decoded it
Decoded(list) ==
    [Produced(list) EXCEPT !.arrayFrees = list_to_vec(list).arrayFrees]

\* SpellChecker::suggest: the list is decoded and not handed to Hunspell_free_list
suggest(sess, eng, word, list) ==
    IF ~CStringNew(word).ok THEN Res("NulError", <<>>, 0, <<>>, eng)
    ELSE IF sess.handle = NullHandle THEN Res("Crash", <<>>, 1, <<>>, eng)
    ELSE LET d == list_to_vec(list) IN
         Res(d.err, d.strings, 1, <<Decoded(list)>>, eng)

\* SpellChecker::analyze: the list is decoded and then handed to Hunspell_free_list
analyze(sess, eng, word, list) ==
    IF ~CStringNew(word).ok THEN Res("NulError", <<>>, 0, <<>>, eng)
    ELSE IF sess.handle = NullHandle THEN Res("Crash", <<>>, 1, <<>>, eng)
    ELSE LET d == list_to_vec(list) IN
         IF d.err # "Ok" THEN Res(d.err, <<>>, 1, <<Decoded(list)>>, eng)
         ELSE Res("Ok", d.strings, 2,
                  <<Hunspell_free_list(list, Decoded(list))>>, eng)

\* SpellChecker::stem
stem(sess, eng, word, list) ==
    IF ~CStringNew(word).ok THEN Res("NulError", <<>>, 0, <<>>, eng)
    ELSE IF sess.handle = NullHandle THEN Res("Crash", <<>>, 1, <<>>, eng)
    ELSE LET d == list_to_vec(list) IN
         Res(d.err, d.strings, 1, <<Decoded(list)>>, eng)

\* SpellChecker::extended_stem: Hunspell_analyze, Hunspell_stem2, decode of the
\* final list, then Hunspell_free_list of the analysis list
extended_stem(sess, eng, word, analyzed, list) ==
    IF ~CStringNew(word).ok THEN Res("NulError", <<>>, 0, <<>>, eng)
    ELSE IF sess.handle = NullHandle THEN Res("Crash", <<>>, 1, <<>>, eng)
    ELSE LET d == list_to_vec(list) IN
         IF d.err # "Ok"
         THEN Res(d.err, <<>>, 2, <<Produced(analyzed), Decoded(list)>>, eng)
         ELSE Res("Ok", d.strings, 3,
                  <<Hunspell_free_list(analyzed, Produced(analyzed)),
                    Decoded(list)>>, eng)

\* SpellChecker::generate
generate(sess, eng, word1, word2, list) ==
    IF ~CStringNew(word1).ok THEN Res("NulError", <<>>, 0, <<>>, eng)
    ELSE IF ~CStringNew(word2).ok THEN Res("NulError", <<>>, 0, <<>>, eng)
    ELSE IF sess.handle = NullHandle THEN Res("Crash", <<>>, 1, <<>>, eng)
    ELSE LET d == list_to_vec(list) IN
         Res(d.err, d.strings, 1, <<Decoded(list)>>, eng)

\* extended_generate with the second word converted after Hunspell_analyze
extended_generate_late_word2(sess, eng, word1, word2, analyzed, list) ==
    IF ~CStringNew(word1).ok THEN Res("NulError", <<>>, 0, <<>>, eng)
    ELSE IF sess.handle = NullHandle THEN Res("Crash", <<>>, 1, <<>>, eng)
    ELSE IF ~CStringNew(word2).ok
    THEN Res("NulError", <<>>, 1, <<Produced(analyzed)>>, eng)
    ELSE LET d == list_to_vec(list) IN
         IF d.err # "Ok"
         THEN Res(d.err, <<>>, 2, <<Produced(analyzed), Decoded(list)>>, eng)
         ELSE Res("Ok", d.strings, 3,
                  <<Hunspell_free_list(analyzed, Produced(analyzed)),
                    Decoded(list)>>, eng)

\* SpellChecker::extended_generate
extended_generate(sess, eng, word1, word2, analyzed, list) ==
    IF ~CStringNew(word1).ok THEN Res("NulError", <<>>, 0, <<>>, eng)
    ELSE IF ~CStringNew(word2).ok THEN Res("NulError", <<>>, 0, <<>>, eng)
    ELSE IF sess.handle = NullHandle THEN Res("Crash", <<>>, 1, <<>>, eng)
    ELSE LET d == list_to_vec(list) IN
         IF d.err # "Ok"
         THEN Res(d.err, <<>>, 2, <<Produced(analyzed), Decoded(list)>>, eng)
         ELSE Res("Ok", d.strings, 3,
                  <<Hunspell_free_list(analyzed, Produced(analyzed)),
                    Decoded(list)>>, eng)

-----------------------------------------------------------------------------
(* The state machine *)

EngOf(sess) == IF sess.handle \in Handles THEN engine[sess.handle] ELSE {}

Op(op, sid, args, err, val, native, status, lists) ==
    [op |-> op, sid |-> sid, args |-> args, err |-> err, val |-> val,
     native |-> native, status |-> status, lists |-> lists]

\* the outcomes of the process after an operation: a crash after a native call
\* through a null handle; a crash or no visible effect after a double free
Outcomes(r) ==
    IF r.err = "Crash" THEN {"crashed"}
    ELSE IF \E i \in DOMAIN r.lists : r.lists[i].arrayFrees > 1
    THEN {"running", "crashed"}
    ELSE {"running"}

\* an operation on live session s with result r, leaving the session as sess
Step(op, s, args, r, sess) ==
    /\ lastOp' = Op(op, s, args, r.err, r.val, r.native, r.status, r.lists)
    /\ proc' \in Outcomes(r)
    /\ sessions' = [sessions EXCEPT ![s] = sess]
    /\ engine' = IF sessions[s].handle \in Handles
                 THEN [engine EXCEPT ![sessions[s].handle] = r.eng]
                 ELSE engine
    /\ UNCHANGED <<live, files, nextHandle, destroyed>>

\* a construction into free slot t with result r; h is what the native
\* constructor returned if it was called (recorded as the status).  A session built and then given
\* up (an error or a panic after construction) is dropped: Hunspell_destroy.
Install(op, t, args, r, h) ==
    LET created == r.native > 0 /\ h # NullHandle IN
    /\ lastOp' = Op(op, t, args, r.err, <<>>, r.native,
                     IF r.native > 0 THEN <<h>> ELSE <<>>, <<>>)
    /\ proc' = IF r.err = "Crash" THEN "crashed"
               ELSE IF r.err = "Panic" THEN "panicked" ELSE "running"
    /\ nextHandle' = IF created THEN nextHandle + 1 ELSE nextHandle
    /\ IF r.err = "Ok"
       THEN /\ sessions' = [sessions EXCEPT ![t] = r.sess]
            /\ live' = live \cup {t}
            /\ engine' = IF created THEN [engine EXCEPT ![h] = r.eng] ELSE engine
            /\ UNCHANGED destroyed
       ELSE /\ UNCHANGED <<sessions, live, engine>>
            /\ destroyed' = IF created /\ r.made /\ r.err # "Crash"
                            THEN [destroyed EXCEPT ![h] = @ + 1]
                            ELSE destroyed
    /\ UNCHANGED files

Running == proc = "running"

NewHandles == {NullHandle, nextHandle}

New(t, affix, dictionary, h) ==
    /\ Running /\ t \notin live /\ nextHandle <= MaxHandles
    /\ LET r == new(affix, dictionary, files, h) IN
       Install("new", t, <<affix, dictionary>>,
               [err |-> r.err, sess |-> r.sess, eng |-> DictWords(dictionary),
                native |-> r.native, made |-> r.err = "Ok"], h)

NewWithKey(t, affix, dictionary, key, h) ==
    /\ Running /\ t \notin live /\ nextHandle <= MaxHandles
    /\ LET r == new_with_key(affix, dictionary, key, files, h) IN
       Install("new_with_key", t, <<affix, dictionary, key>>,
               [err |-> r.err, sess |-> r.sess, eng |-> DictWords(dictionary),
                native |-> r.native, made |-> r.err = "Ok"], h)

Clone(s, t, h, sts) ==
    /\ Running /\ s \in live /\ t \notin live /\ nextHandle <= MaxHandles
    /\ Install("clone", t, <<s>>, clone(sessions[s], files, h, sts), h)

\* the input of deserialization: what serialize emits for a live session, or
\* the same document written with the identifiers enum Field accepts
Documents(sess) ==
    {serialize(sess),
     [i \in 1..4 |-> IF i = 3 THEN <<"additionaldictionaries", serialize(sess)[i][2]>>
                     ELSE serialize(sess)[i]]}

Deserialize(s, t, form, doc, h, sts) ==
    /\ Running /\ s \in live /\ t \notin live /\ nextHandle <= MaxHandles
    /\ Install("deserialize", t, <<form, doc[3][1]>>,
               IF form = "seq" THEN visit_seq(doc, files, h, sts)
               ELSE visit_map(doc, files, h, sts), h)

\* a drop that does not release the handle
Drop_leak(s) ==
    /\ proc = "running" /\ s \in live
    /\ live' = live \ {s}
    /\ sessions' = [sessions EXCEPT ![s] = NoSession]
    /\ lastOp' = Op("drop", s, <<>>, "Ok", <<>>, 0, <<>>, <<>>)
    /\ UNCHANGED <<files, nextHandle, proc, destroyed, engine>>

\* impl Drop for SpellChecker: Hunspell_destroy(self.handle)
Drop(s) ==
    /\ Running /\ s \in live
    /\ LET h == sessions[s].handle IN
       /\ destroyed' = IF h \in Handles THEN [destroyed EXCEPT ![h] = @ + 1]
                       ELSE destroyed
       /\ engine' = IF h \in Handles THEN [engine EXCEPT ![h] = {}] ELSE engine
    /\ live' = live \ {s}
    /\ sessions' = [sessions EXCEPT ![s] = NoSession]
    /\ lastOp' = Op("drop", s, <<>>, "Ok", <<>>, 1, <<>>, <<>>)
    /\ UNCHANGED <<files, nextHandle, proc>>

\* the environment removes a file
RemoveFile(f) ==
    /\ Running /\ f \in files
    /\ files' = files \ {f}
    /\ lastOp' = Op("env", 0, <<f>>, "Ok", <<>>, 0, <<>>, <<>>)
    /\ UNCHANGED <<sessions, live, engine, nextHandle, destroyed, proc>>

AddDictionary(s, path, status) ==
    /\ Running /\ s \in live
    /\ LET r == add_dictionary(sessions[s], EngOf(sessions[s]), path, files, status)
       IN  Step("add_dictionary", s, <<path>>,
                [Res(r.err, r.val, r.native, <<>>, r.eng) EXCEPT !.status = r.status],
                r.sess)

Add(s, word, status) ==
    /\ Running /\ s \in live
    /\ Step("add", s, <<word>>,
            add(sessions[s], EngOf(sessions[s]), word, status), sessions[s])

AddWithAffix(s, word, example, status) ==
    /\ Running /\ s \in live
    /\ Step("add_with_affix", s, <<word, example>>,
            add_with_affix(sessions[s], EngOf(sessions[s]), word, example, status),
            sessions[s])

Remove(s, word, status) ==
    /\ Running /\ s \in live
    /\ Step("remove", s, <<word>>,
            remove(sessions[s], EngOf(sessions[s]), word, status), sessions[s])

Check(s, word) ==
    /\ Running /\ s \in live
    /\ Step("check", s, <<word>>,
            check(sessions[s], EngOf(sessions[s]), word), sessions[s])

Suggest(s, word, list) ==
    /\ Running /\ s \in live
    /\ Step("suggest", s, <<word>>,
            suggest(sessions[s], EngOf(sessions[s]), word, list), sessions[s])

Analyze(s, word, list) ==
    /\ Running /\ s \in live
    /\ Step("analyze", s, <<word>>,
            analyze(sessions[s], EngOf(sessions[s]), word, list), sessions[s])

Stem(s, word, list) ==
    /\ Running /\ s \in live
    /\ Step("stem", s, <<word>>,
            stem(sessions[s], EngOf(sessions[s]), word, list), sessions[s])

ExtendedStem(s, word, analyzed, list) ==
    /\ Running /\ s \in live
    /\ Step("extended_stem", s, <<word>>,
            extended_stem(sessions[s], EngOf(sessions[s]), word, analyzed, list),
            sessions[s])

Generate(s, word1, word2, list) ==
    /\ Running /\ s \in live
    /\ Step("generate", s, <<word1, word2>>,
            generate(sessions[s], EngOf(sessions[s]), word1, word2, list),
            sessions[s])

ExtendedGenerate(s, word1, word2, analyzed, list) ==
    /\ Running /\ s \in live
    /\ Step("extended_generate", s, <<word1, word2>>,
            extended_generate(sessions[s], EngOf(sessions[s]), word1, word2,
                              analyzed, list),
            sessions[s])

Init ==
    /\ sessions = [s \in Slots |-> NoSession]
    /\ live = {}
    /\ files = AllFiles
    /\ engine = [h \in Handles |-> {}]
    /\ nextHandle = 1
    /\ destroyed = [h \in Handles |-> 0]
    /\ proc = "running"
    /\ lastOp = NoOp

-----------------------------------------------------------------------------
(* Life cycle: construction, cloning, deserialization, dropping, with the  *)
(* files changing underneath.                                              *)

StatusSeqs(s) == [1..Len(sessions[s].additional_dictionaries) -> Statuses]

Next ==
    \/ \E h \in NewHandles : New(1, Aff, Dic, h)
    \/ \E h \in NewHandles : NewWithKey(1, Aff, Dic, Key1, h)
    \/ \E p \in {Dic, Extra}, st \in Statuses :
          Len(sessions[1].additional_dictionaries) < MaxAdds /\ AddDictionary(1, p, st)
    \/ \E s \in Slots, st \in Statuses : Add(s, Octo, st)
    \/ \E h \in NewHandles : \E sts \in StatusSeqs(1) : Clone(1, 2, h, sts)
    \/ \E form \in {"seq", "map"}, h \in NewHandles :
          \E doc \in Documents(sessions[1]), sts \in StatusSeqs(1) :
             Deserialize(1, 2, form, doc, h, sts)
    \/ \E s \in Slots : Drop(s)
    \/ \E f \in {Aff, Extra} : RemoveFile(f)

Spec == Init /\ [][Next]_vars

-----------------------------------------------------------------------------
(* Queries and lexicon changes on one session, with well-formed and        *)
(* malformed arguments and every shape of native list.                     *)

NextQuery ==
    \/ \E a \in {Aff, Gone, NulPath}, d \in {Dic, NulPath}, h \in NewHandles :
          New(1, a, d, h)
    \/ \E a \in {Aff, NulPath}, d \in {Dic, NulPath}, k \in {Key1, NulKey},
          h \in NewHandles : NewWithKey(1, a, d, k, h)
    \/ \E p \in {Extra, Gone, NulPath}, st \in Statuses :
          Len(sessions[1].additional_dictionaries) < MaxAdds /\ AddDictionary(1, p, st)
    \/ \E w \in {Octo, NulWord}, st \in Statuses : Add(1, w, st)
    \/ \E w \in {Cat, NulWord}, e \in {Cat, NulWord}, st \in Statuses :
          AddWithAffix(1, w, e, st)
    \/ \E w \in {Octo, NulWord}, st \in Statuses : Remove(1, w, st)
    \/ \E w \in {Cats, Octo, NulWord} : Check(1, w)
    \/ \E w \in {Cats, NulWord}, l \in NativeLists : Suggest(1, w, l)
    \/ \E w \in {Cats, NulWord}, l \in NativeLists : Analyze(1, w, l)
    \/ \E w \in {Cats, NulWord}, l \in NativeLists : Stem(1, w, l)
    \/ \E w \in {Cats, NulWord}, a \in NativeAnalyses, l \in NativeLists :
          ExtendedStem(1, w, a, l)
    \/ \E w, m \in {Cats, NulWord}, l \in NativeLists : Generate(1, w, m, l)
    \/ \E w, m \in {Cats, NulWord}, a \in NativeAnalyses, l \in NativeLists :
          ExtendedGenerate(1, w, m, a, l)

SpecQuery == Init /\ [][NextQuery]_vars

-----------------------------------------------------------------------------
(* Capacity: one session taking additional dictionaries up to the limit.   *)
(* Either dictionary may go into the first MaxMixed positions, Extra into  *)
(* the later ones.                                                         *)

CapPaths(sess) ==
    {Extra, Gone, NulPath} \cup
    (IF Len(sess.additional_dictionaries) < MaxMixed THEN {Dic} ELSE {})

NextCap ==
    \/ \E h \in NewHandles : New(1, Aff, Dic, h)
    \/ \E p \in CapPaths(sessions[1]), st \in Statuses : AddDictionary(1, p, st)

SpecCap == Init /\ [][NextCap]_vars

\* the words of a session: the runtime dictionary is changed and consulted
\* with well-formed words; the native calls report either status
NextWords ==
    \/ \E h \in NewHandles : New(1, Aff, Dic, h)
    \/ \E st \in Statuses :
          Len(sessions[1].additional_dictionaries) < MaxAdds
          /\ AddDictionary(1, Extra, st)
    \/ \E w \in {Octo, Rust}, st \in Statuses : Add(1, w, st)
    \/ \E w \in {Octo, Rust}, e \in {Cat, Octo}, st \in Statuses :
          AddWithAffix(1, w, e, st)
    \/ \E w \in {Octo, Rust}, st \in Statuses : Remove(1, w, st)
    \/ \E w \in Words : Check(1, w)

SpecWords == Init /\ [][NextWords]_vars

-----------------------------------------------------------------------------
(* Properties of add_dictionary, checked under SpecCap *)

AddsOf(s) == sessions[s].additional_dictionaries

\* C1: the additional-dictionary list never holds more than 20 entries, and
\* an add_dictionary call on a list of 20 entries fails with
\* CannotAddMoreDictionaries, issues no native call and leaves the list of
\* exactly 20 entries as it was.
C1_DictionaryCap ==
    [][\A s \in Slots :
          /\ Len(AddsOf(s)') <= MaxDictionaries
          /\ (lastOp'.op = "add_dictionary" /\ lastOp'.sid = s
                /\ Len(AddsOf(s)) = MaxDictionaries)
             => /\ lastOp'.err = "CannotAddMoreDictionaries"
                /\ lastOp'.native = 0
                /\ sessions'[s] = sessions[s]
                /\ Len(AddsOf(s)') = MaxDictionaries]_vars

\* a call on a full list has just been refused
C1_Witness ==
    /\ lastOp.op = "add_dictionary"
    /\ lastOp.err = "CannotAddMoreDictionaries"
    /\ lastOp.args = <<Extra>>
    /\ Len(AddsOf(1)) = MaxDictionaries

\* C7 (as claimed): add_dictionary returns true exactly when the native
\* status is zero, appends the path when it is zero and leaves the list
\* unchanged when it is nonzero.
C7_AppendOnlyOnSuccess ==
    [][\A s \in Slots :
          (lastOp'.op = "add_dictionary" /\ lastOp'.sid = s
             /\ lastOp'.status # <<>>)
          => /\ lastOp'.err = "Ok"
             /\ lastOp'.val = <<lastOp'.status = <<0>>>>
             /\ AddsOf(s)' = IF lastOp'.status = <<0>>
                             THEN Append(AddsOf(s), lastOp'.args[1])
                             ELSE AddsOf(s)]_vars

\* C8 (as claimed): add_dictionary on a path that is no regular file fails
\* with DictionaryFileIsNoFile, issues no native call and leaves the list
\* unchanged.
C8_Original ==
    [][\A s \in Slots :
          (lastOp'.op = "add_dictionary" /\ lastOp'.sid = s
             /\ ~IsFile(lastOp'.args[1], files))
          => /\ lastOp'.err = "DictionaryFileIsNoFile"
             /\ lastOp'.native = 0
             /\ sessions'[s] = sessions[s]]_vars

\* C8 (amended): add_dictionary on a path that is no regular file fails,
\* issues no native call and leaves the list unchanged; the error is
\* DictionaryFileIsNoFile when the list holds fewer than 20 entries and
\* CannotAddMoreDictionaries when it already holds 20.
C8_MissingFile ==
    [][\A s \in Slots :
          (lastOp'.op = "add_dictionary" /\ lastOp'.sid = s
             /\ ~IsFile(lastOp'.args[1], files))
          => /\ lastOp'.err = IF Len(AddsOf(s)) < MaxDictionaries
                              THEN "DictionaryFileIsNoFile"
                              ELSE "CannotAddMoreDictionaries"
             /\ lastOp'.native = 0
             /\ sessions'[s] = sessions[s]]_vars

\* a missing file has just been refused by a session that holds dictionaries
C8_Witness ==
    /\ lastOp.op = "add_dictionary"
    /\ lastOp.args = <<Gone>>
    /\ lastOp.err = "DictionaryFileIsNoFile"
    /\ AddsOf(1) = <<Dic, Extra>>

-----------------------------------------------------------------------------
(* Properties of the queries and of argument conversion, checked under     *)
(* SpecQuery                                                               *)

QueryOps ==
    {"suggest", "analyze", "stem", "extended_stem", "generate", "extended_generate"}

WordOps ==
    QueryOps \cup {"add", "add_with_affix", "remove", "check"}

\* the operation has returned to its caller
Returned == lastOp.err # "Crash" /\ proc # "crashed"

\* C3 (as claimed): no array of a native list is released more than once
\* during a query: not by the host-side decode and again by
\* Hunspell_free_list.
C3_ArrayReleasedAtMostOnce ==
    lastOp.op \in QueryOps
    => \A i \in DOMAIN lastOp.lists : lastOp.lists[i].arrayFrees <= 1

\* C4 (as claimed): when a query returns, with a value or with a decode
\* error, every list a native call produced in it (a non-null array of n > 0
\* strings) has been released in full: its array and each of its element
\* strings; for the extended queries both the analysis list and the final list.
C4_ListsReleasedInFull ==
    (lastOp.op \in QueryOps /\ Returned)
    => \A i \in DOMAIN lastOp.lists :
          (~lastOp.lists[i].null /\ lastOp.lists[i].n > 0)
          => /\ lastOp.lists[i].arrayFrees >= 1
             /\ lastOp.lists[i].elemFrees >= 1

\* C5 (as claimed): decoding a list whose count is 0 yields the empty
\* sequence whatever the pointer, null included; a negative count with a
\* non-null pointer fails with NegativeListLength; a null pointer is an
\* error only when the count is nonzero.
C5_DecodeByCount ==
    (lastOp.op \in QueryOps /\ lastOp.lists # <<>>)
    => LET l == lastOp.lists[Len(lastOp.lists)] IN
       /\ l.n = 0 => (lastOp.err = "Ok" /\ lastOp.val = <<>>)
       /\ (l.n < 0 /\ ~l.null) => lastOp.err = "NegativeListLength"
       /\ (l.null /\ lastOp.err = "NullPtr") => l.n # 0

NulArg(o) == \E i \in DOMAIN o.args : HasNul(o.args[i])

C9Ops == WordOps \cup {"new", "new_with_key", "add_dictionary"}

SessionState == <<sessions, live, engine, nextHandle, destroyed>>

\* C9 (as claimed): an operation given an argument with an embedded NUL
\* returns NulError before any native call, with the session state unchanged.
C9_Original ==
    [][(lastOp'.op \in C9Ops /\ NulArg(lastOp'))
       => /\ lastOp'.err = "NulError"
          /\ lastOp'.native = 0
          /\ UNCHANGED SessionState]_vars

\* the error of an operation given an argument with an embedded NUL: a path
\* with a NUL names no regular file and a full list refuses every path, and
\* those tests come before the conversion to a C string
NulArgError(o, adds) ==
    IF o.op \in WordOps THEN "NulError"
    ELSE IF o.op = "add_dictionary"
    THEN IF Len(adds) = MaxDictionaries THEN "CannotAddMoreDictionaries"
         ELSE "DictionaryFileIsNoFile"
    ELSE IF ~IsFile(o.args[1], files) THEN "AffixFileIsNoFile"
    ELSE IF ~IsFile(o.args[2], files) THEN "DictionaryFileIsNoFile"
    ELSE "NulError"

\* C9 (amended): an operation given an argument with an embedded NUL fails
\* before any native call, with the session state unchanged, whichever
\* argument is malformed.  The error is NulError for a word or a key; a path
\* with an embedded NUL is refused earlier, as no regular file
\* (AffixFileIsNoFile, DictionaryFileIsNoFile) or by the full list
\* (CannotAddMoreDictionaries), and a missing affix or dictionary file is
\* reported before a key with a NUL.
C9_NulRejectedBeforeNative ==
    [][(lastOp'.op \in C9Ops /\ NulArg(lastOp'))
       => /\ lastOp'.err =
                NulArgError(lastOp', sessions[lastOp'.sid].additional_dictionaries)
          /\ lastOp'.native = 0
          /\ UNCHANGED SessionState]_vars

\* extended_generate has just refused a second word with an embedded NUL
C9_Witness ==
    /\ lastOp.op = "extended_generate"
    /\ lastOp.args = <<Cats, NulWord>>
    /\ lastOp.err = "NulError"
    /\ lastOp.native = 0
    /\ sessions[1].handle # NullHandle

-----------------------------------------------------------------------------
(* Properties of the life cycle, checked under Spec *)

Holders(h) == {s \in live : sessions[s].handle = h}

\* C2: every handle a native construction call has returned (to new,
\* new_with_key, clone or deserialization) is either held by exactly one live
\* session and not yet destroyed, or held by none and passed to
\* Hunspell_destroy exactly once (its session was dropped, or the clone
\* replay or the deserialization failed after creating it); a handle not yet
\* returned is held by no session.  The null pointer is not a handle.
C2_HandleOwnedAndDestroyedOnce ==
    \A h \in Handles :
       IF h < nextHandle
       THEN \/ Cardinality(Holders(h)) = 1 /\ destroyed[h] = 0
            \/ Holders(h) = {} /\ destroyed[h] = 1
       ELSE Holders(h) = {} /\ destroyed[h] = 0

\* a clone has panicked while replaying the additional dictionaries, after
\* its handle was created, and the handle has been destroyed
C2_Witness ==
    /\ lastOp.op = "clone"
    /\ lastOp.err = "Panic"
    /\ lastOp.status # <<>>
    /\ lastOp.status # <<NullHandle>>
    /\ destroyed[lastOp.status[1]] = 1
    /\ 1 \in live
    /\ sessions[1].handle # NullHandle

\* C6 (as claimed): when the native constructor returns a null handle, new
\* and new_with_key return an error and produce no session; every session
\* that exists holds a non-null handle.
C6_NoNullHandleSession ==
    /\ \A s \in live : sessions[s].handle # NullHandle
    /\ (lastOp.op \in {"new", "new_with_key"} /\ lastOp.status = <<NullHandle>>)
       => lastOp.err # "Ok"

\* C10: a clone that returns holds the handle a native construction call
\* issued during the clone has returned, one no other session holds (unless
\* it is null), was opened with the affix path, dictionary path and key of
\* the original, and has had the original's additional dictionaries
\* replayed through add_dictionary in order, so that its list equals the
\* original's; and add on one session leaves the result of check on the
\* other session unchanged, for every word.
C10_CloneIsIndependent ==
    [][/\ (lastOp'.op = "clone" /\ lastOp'.err = "Ok")
          => LET o == sessions[1]
                 c == sessions'[2]
             IN  /\ sessions'[1] = o
                 /\ lastOp'.status = <<c.handle>>
                 /\ c.handle # NullHandle
                    => (c.handle # o.handle /\ c.handle = nextHandle
                          /\ destroyed'[c.handle] = 0)
                 /\ c.affix = o.affix
                 /\ c.dictionary = o.dictionary
                 /\ c.key = o.key
                 /\ c.additional_dictionaries = o.additional_dictionaries
                 /\ lastOp'.native = 1 + Len(o.additional_dictionaries)
       /\ \A s \in Slots :
            (lastOp'.op = "add" /\ lastOp'.sid = s)
            => \A o \in live \ {s}, w \in Words :
                  check(sessions[o], EngOf(sessions[o]), w).val'
                    = check(sessions[o], EngOf(sessions[o]), w).val]_vars

\* a session opened with a key and holding two different additional
\* dictionaries has just been cloned
C10_Witness ==
    /\ lastOp.op = "clone"
    /\ lastOp.err = "Ok"
    /\ live = {1, 2}
    /\ sessions[1].key = Some(Key1)
    /\ sessions[1].additional_dictionaries = <<Extra, Dic>>
    /\ sessions[2].additional_dictionaries = <<Extra, Dic>>
    /\ sessions[2].handle \notin {NullHandle, sessions[1].handle}

-----------------------------------------------------------------------------
(* Properties of cloning and of the serialized form, checked under Spec *)

\* the files the configuration of sess names all exist
FilesPresent(sess) ==
    /\ IsFile(sess.affix, files)
    /\ IsFile(sess.dictionary, files)
    /\ \A i \in DOMAIN sess.additional_dictionaries :
          IsFile(sess.additional_dictionaries[i], files)

\* C11 (as claimed): cloning a session of which the affix file, the
\* dictionary file or an additional dictionary file no longer exists hands
\* the caller an error value and does not panic.
C11_CloneFailureIsAnError ==
    (lastOp.op = "clone" /\ ~FilesPresent(sessions[1]))
    => (lastOp.err # "Panic" /\ proc # "panicked")

\* C12 (as claimed): deserializing what serialize emits for a session, by
\* position (visit_seq) or by field name (visit_map), while the files it
\* names exist, yields a session with the same affix path, dictionary path,
\* additional-dictionary list and key; the handle is no part of the
\* serialized form.
C12_RoundTrip ==
    (/\ lastOp.op = "deserialize"
     /\ lastOp.args[2] = "additional_dictionaries"
     /\ lastOp.err # "Crash"
     /\ FilesPresent(sessions[1]))
    => /\ lastOp.err = "Ok"
       /\ 2 \in live
       /\ sessions[2].affix = sessions[1].affix
       /\ sessions[2].dictionary = sessions[1].dictionary
       /\ sessions[2].additional_dictionaries = sessions[1].additional_dictionaries
       /\ sessions[2].key = sessions[1].key
       /\ \A i \in DOMAIN serialize(sessions[1]) :
             serialize(sessions[1])[i][1] # "handle"

-----------------------------------------------------------------------------
(* Properties of add and remove, checked under SpecWords *)

\* C13: after add(w) returns Ok, check(w) on the session returns true; after
\* remove(w) returns Ok, check(w) returns false; a nonzero native status of
\* add, add_with_affix or remove is returned as HunspellLibError carrying
\* that status and a zero status as Ok; and none of the three changes the
\* session's affix path, dictionary path, key, additional-dictionary list
\* or handle.
C13_AddRemoveToggle ==
    [][\A s \in Slots :
          (lastOp'.op \in {"add", "add_with_affix", "remove"} /\ lastOp'.sid = s)
          => /\ sessions'[s] = sessions[s]
             /\ (lastOp'.op = "add" /\ lastOp'.err = "Ok")
                => check(sessions[s], EngOf(sessions[s]), lastOp.args[1]).val'
                     = <<TRUE>>
             /\ (lastOp'.op = "remove" /\ lastOp'.err = "Ok")
                => check(sessions[s], EngOf(sessions[s]), lastOp.args[1]).val'
                     = <<FALSE>>
             /\ lastOp'.status # <<>>
                => IF lastOp'.status = <<0>>
                   THEN lastOp'.err = "Ok"
                   ELSE /\ lastOp'.err = "HunspellLibError"
                        /\ lastOp'.val = lastOp'.status]_vars

\* a word has just been removed again from a session that had accepted it
\* and that holds an additional dictionary
C13_Witness ==
    /\ lastOp.op = "remove"
    /\ lastOp.err = "Ok"
    /\ lastOp.args = <<Octo>>
    /\ sessions[1].additional_dictionaries # <<>>
    /\ check(sessions[1], EngOf(sessions[1]), Octo).val = <<FALSE>>
    /\ check(sessions[1], EngOf(sessions[1]), Cats).val = <<TRUE>>

====
